---- MODULE Spec2Model ----
(***************************************************************************)
(* Task ordering and optimistic move engine of the Kanban board:          *)
(* the reorder route of the project router (PATCH                         *)
(* /projects/:id/tasks/reorder), the task routes that create and delete   *)
(* tasks, and the drag handler of the ProjectBoard page.                  *)
(***************************************************************************)
EXTENDS Integers, Sequences, FiniteSets, TLC

\* ------------------------------------------------------------------ bounds
NumTasks == 3        \* task ids that can ever be created
MaxOrder == 3        \* largest order value the model lets a task take
MaxIndex == 3        \* largest destinationIndex a request carries
MaxDrags == 2        \* drops the board handles in one run
BoardTasks == 2      \* tasks created before the board page loads

\* --------------------------------------------------------------- constants
Statuses == {"todo", "inprogress", "done"}
ProjectIds == {1, 2}          \* ids that Project.findById can be asked for
TaskIds == 1..NumTasks
Indexes == 0..MaxIndex

VARIABLES
    projects,   \* ids of the Project documents that exist
    tasks,      \* Task collection: live task id -> [projectId, status, order]
    nextId,     \* next fresh task id (ObjectIds are never reused)
    last,       \* the request whose answer is on its way: what it was, the collection
                \* before it, its answer (op "none" once the answer is delivered)
    pc,         \* per concurrent request handler: the await it stands at
    rq,         \* per concurrent request handler: the request it serves
    loc,        \* per concurrent request handler: task.order as read, the spliced
                \* column, the bulk operations applied, the answer
    overlapped, \* some handler began while another was between its first read and its answer
    loaded,     \* ProjectBoard: loadProjectData has filled the task list
    ctasks,     \* ProjectBoard: the tasks state, a list of task objects
    drag,       \* the drag in progress as the drag-and-drop context holds it
    hd,         \* per running handleDragEnd: its await, request, originalTasks, finalTasks,
                \* and how many times the route has served its request
    drags,      \* drops handled so far
    toasts,     \* showError calls so far
    ev,         \* the move that the last step resolved, if it resolved one
    teardown,   \* ProjectBoard: whether the page was unmounted, and the list, the toast
                \* count and the handlers awaiting getTasks when it was
    hist        \* since the board last had no request outstanding: its list then, the
                \* lists received from the server, the snapshots and the optimistic
                \* lists of the moves that failed

serverVars == <<projects, tasks, nextId, last>>
concVars == <<pc, rq, loc, overlapped>>
clientVars == <<loaded, ctasks, drag, hd, drags, toasts, ev, teardown, hist>>
vars == <<projects, tasks, nextId, last, pc, rq, loc, overlapped,
          loaded, ctasks, drag, hd, drags, toasts, ev, teardown, hist>>

\* ------------------------------------------------------------ Task queries
\* Task.find({ projectId, status }): ids of the tasks of one column
ColumnIds(db, p, s) ==
    {t \in DOMAIN db : db[t].projectId = p /\ db[t].status = s}

\* the order values held by a set of tasks
OrdersOf(db, S) == {db[t].order : t \in S}

\* .sort({ order: 1 }): every sequence of the ids of S that is ascending by
\* order; tasks with equal order come in an order the database chooses
SortedByOrder(db, S) ==
    {q \in [1..Cardinality(S) -> S] :
        /\ \A i, j \in 1..Cardinality(S) : i # j => q[i] # q[j]
        /\ \A i, j \in 1..Cardinality(S) : i < j => db[q[i]].order <= db[q[j]].order}

\* tasksInColumn.findIndex(t => t._id.toString() === taskId), 1-based; 0 for -1
FindIndex(q, t) ==
    IF \E i \in 1..Len(q) : q[i] = t
    THEN CHOOSE i \in 1..Len(q) : q[i] = t
    ELSE 0

\* tasksInColumn.splice(currentIndex, 1)
SpliceOut(q, i) == SubSeq(q, 1, i - 1) \o SubSeq(q, i + 1, Len(q))

\* tasksInColumn.splice(destinationIndex, 0, movedTask): a start beyond the
\* length of the array is taken as the length, a negative start counts from
\* the end of the array and stops at its beginning
SpliceIn(q, d, t) ==
    LET at == IF d > Len(q) THEN Len(q)
              ELSE IF d >= 0 THEN d
              ELSE IF Len(q) + d > 0 THEN Len(q) + d ELSE 0
    IN  SubSeq(q, 1, at) \o <<t>> \o SubSeq(q, at + 1, Len(q))

\* UpdateOne with the one-based position written as the order
UpdateOneOneBased(db, q, i) ==
    [t \in DOMAIN db |-> IF t = q[i] THEN [db[t] EXCEPT !.order = i] ELSE db[t]]

\* one operation of the bulkWrite, for the task at (one-based) position i of
\* the spliced column: { updateOne: { filter: { _id }, update: { order: index } } }
\* (an updateOne whose filter matches nothing does nothing)
UpdateOne(db, q, i) ==
    [t \in DOMAIN db |-> IF t = q[i] THEN [db[t] EXCEPT !.order = i - 1] ELSE db[t]]

\* the first k operations of Task.bulkWrite(bulkOps), applied in order
RECURSIVE BulkWrite(_, _, _)
BulkWrite(db, q, k) ==
    IF k = 0 THEN db ELSE UpdateOne(BulkWrite(db, q, k - 1), q, k)

\* MoveTask that replaces the document instead of setting two of its fields
MoveTaskOverwrite(db, req) ==
    [t \in DOMAIN db |->
        IF t = req.taskId
        THEN [projectId |-> 0, status |-> req.destinationStatus,
              order |-> req.destinationIndex]
        ELSE db[t]]

\* Task.findByIdAndUpdate(taskId, { status: destinationStatus, order: destinationIndex })
MoveTask(db, req) ==
    [t \in DOMAIN db |->
        IF t = req.taskId
        THEN [db[t] EXCEPT !.status = req.destinationStatus,
                           !.order = req.destinationIndex]
        ELSE db[t]]

\* CloseGap measured from the destination index instead of the task's old order
CloseGapFromIndex(db, req, taskOrder) ==
    [t \in DOMAIN db |->
        IF /\ db[t].projectId = req.projectId
           /\ db[t].status = req.sourceStatus
           /\ db[t].order > req.destinationIndex
        THEN [db[t] EXCEPT !.order = @ - 1]
        ELSE db[t]]

\* CloseGap with $gte in place of $gt
CloseGapGte(db, req, taskOrder) ==
    [t \in DOMAIN db |->
        IF /\ db[t].projectId = req.projectId
           /\ db[t].status = req.sourceStatus
           /\ db[t].order >= taskOrder
        THEN [db[t] EXCEPT !.order = @ - 1]
        ELSE db[t]]

\* Task.updateMany({ projectId, status: sourceStatus, order: { $gt: task.order } },
\*                 { $inc: { order: -1 } })
CloseGap(db, req, taskOrder) ==
    [t \in DOMAIN db |->
        IF /\ db[t].projectId = req.projectId
           /\ db[t].status = req.sourceStatus
           /\ db[t].order > taskOrder
        THEN [db[t] EXCEPT !.order = @ - 1]
        ELSE db[t]]

\* MakeSpace with $gt in place of $gte
MakeSpaceGt(db, req) ==
    [t \in DOMAIN db |->
        IF /\ db[t].projectId = req.projectId
           /\ db[t].status = req.destinationStatus
           /\ db[t].order > req.destinationIndex
           /\ t # req.taskId
        THEN [db[t] EXCEPT !.order = @ + 1]
        ELSE db[t]]

\* MakeSpace whose filter leaves out projectId
MakeSpaceAnyProject(db, req) ==
    [t \in DOMAIN db |->
        IF /\ db[t].status = req.destinationStatus
           /\ db[t].order >= req.destinationIndex
           /\ t # req.taskId
        THEN [db[t] EXCEPT !.order = @ + 1]
        ELSE db[t]]

\* Task.updateMany({ projectId, status: destinationStatus,
\*                   order: { $gte: destinationIndex }, _id: { $ne: taskId } },
\*                 { $inc: { order: 1 } })
MakeSpace(db, req) ==
    [t \in DOMAIN db |->
        IF /\ db[t].projectId = req.projectId
           /\ db[t].status = req.destinationStatus
           /\ db[t].order >= req.destinationIndex
           /\ t # req.taskId
        THEN [db[t] EXCEPT !.order = @ + 1]
        ELSE db[t]]

\* the collection after the first k of the three writes of a cross-column move
CrossColumnWrites(db, req, k) ==
    LET taskOrder == db[req.taskId].order
        w1 == MoveTask(db, req)
        w2 == CloseGap(w1, req, taskOrder)
        w3 == MakeSpace(w2, req)
    IN  IF k = 0 THEN db ELSE IF k = 1 THEN w1 ELSE IF k = 2 THEN w2 ELSE w3

\* --------------------------------------------------------------- requests
\* body and :id of PATCH /projects/:id/tasks/reorder
\* every move on project 1, and one move on each other project id
ReorderRequests ==
    [projectId : {1}, taskId : TaskIds, sourceStatus : Statuses,
     destinationStatus : Statuses, destinationIndex : Indexes]
    \cup [projectId : ProjectIds \ {1}, taskId : {1}, sourceStatus : {"todo"},
          destinationStatus : {"todo", "done"}, destinationIndex : {0}]

NoRequest ==
    [projectId |-> 0, taskId |-> 0, sourceStatus |-> "", destinationStatus |-> "",
     destinationIndex |-> 0]

\* where the storage layer throws during one request: never, or at the
\* database call that follows the first k writes
FailPoints == {"none"} \cup {"0", "1", "2", "3"}
WritesDone(f) == IF f = "0" THEN 0 ELSE IF f = "1" THEN 1 ELSE IF f = "2" THEN 2 ELSE 3

\* ------------------------------------------- request validation
\* columns of the Project documents: project 2 was saved with custom columns,
\* the others with the default ones of the pre-save hook
Columns ==
    [p \in ProjectIds |-> IF p = 2 THEN {"backlog", "todo", "done"} ELSE Statuses]

\* a well-formed id that names no Project document
MissingProjectId == 3

\* an id as it arrives in the URL or the body: a string of len characters, all
\* of them hexadecimal digits or not; a well-formed one names document n
WellFormedId(n) == [len |-> 24, hex |-> TRUE, n |-> n]
MalformedIds == {[len |-> 12, hex |-> TRUE, n |-> 0], [len |-> 24, hex |-> FALSE, n |-> 0]}

\* status values a body can carry
RawStatuses == Statuses \cup {"backlog"}

\* destinationIndex as it arrives, counted in halves (3 stands for 1.5, -2 for -1)
RawIndexes == {-2, -1, 1} \cup {2 * i : i \in Indexes}

\* isMongoId()
IsMongoId(x) == x.len = 24 /\ x.hex

\* isIn(['todo', 'inprogress', 'done'])
IsIn(x) == x \in {"todo", "inprogress", "done"}

\* IsInt that takes every whole number
IsIntAnySign(h) == h % 2 = 0

\* isInt({ min: 0 })
IsInt(h) == h % 2 = 0 /\ h \div 2 >= 0

\* validationResult(req).array(): the messages of the rules that failed
ValidationErrors(raw) ==
    {m \in {"Invalid project ID format", "Invalid task ID format",
             "Source status must be one of: todo, inprogress, done",
             "Destination status must be one of: todo, inprogress, done",
             "Destination index must be a non-negative integer"} :
        \/ m = "Invalid project ID format" /\ ~IsMongoId(raw.id)
        \/ m = "Invalid task ID format" /\ ~IsMongoId(raw.taskId)
        \/ m = "Source status must be one of: todo, inprogress, done"
              /\ ~IsIn(raw.sourceStatus)
        \/ m = "Destination status must be one of: todo, inprogress, done"
              /\ ~IsIn(raw.destinationStatus)
        \/ m = "Destination index must be a non-negative integer"
              /\ ~IsInt(raw.destinationIndex)}

\* req.params and req.body as the handler destructures them
Destructured(raw) ==
    [projectId |-> raw.id.n, taskId |-> raw.taskId.n, sourceStatus |-> raw.sourceStatus,
     destinationStatus |-> raw.destinationStatus,
     destinationIndex |-> raw.destinationIndex \div 2]

\* requests as they arrive at the route
RawRequests ==
    [id : {WellFormedId(n) : n \in ProjectIds \cup {MissingProjectId}} \cup MalformedIds,
     taskId : {WellFormedId(n) : n \in 1..(BoardTasks + 1)} \cup MalformedIds,
     sourceStatus : RawStatuses, destinationStatus : RawStatuses,
     destinationIndex : RawIndexes]

\* ------------------------------------------- PATCH /:id/tasks/reorder
\* the same-column branch: find, findIndex, the two splices, bulkWrite.
\* q is the sorted column the find returned; k bulk operations are applied
\* (all of them unless the storage layer throws)
Respliced(q, req) ==
    SpliceIn(SpliceOut(q, FindIndex(q, req.taskId)), req.destinationIndex, req.taskId)

SameColumnWrites(db, req, q, k) ==
    BulkWrite(db, Respliced(q, req), IF k > Len(q) THEN Len(q) ELSE k)

\* findOne that looks the task up by its id alone
FindTaskById(db, req) == req.taskId \in DOMAIN db

\* Task.findOne({ _id: taskId, projectId }) returns a document
FindTask(db, req) ==
    req.taskId \in DOMAIN db /\ db[req.taskId].projectId = req.projectId

\* the answers of the route
ReorderResult(db, projs, req, f, q) ==
    IF req.projectId \notin projs
    THEN [db |-> db, code |-> IF f = "none" THEN "PROJECT_NOT_FOUND" ELSE "REORDER_ERROR"]
    ELSE IF ~FindTask(db, req)
    THEN [db |-> db, code |-> IF f = "none" THEN "TASK_NOT_FOUND" ELSE "REORDER_ERROR"]
    ELSE IF req.sourceStatus = req.destinationStatus
    THEN IF FindIndex(q, req.taskId) = 0
         THEN [db |-> db, code |-> "REORDER_ERROR"]    \* throw new Error('Task not found in source column')
         ELSE IF f = "none"
              THEN [db |-> SameColumnWrites(db, req, q, Len(q)), code |-> "OK"]
              ELSE [db |-> SameColumnWrites(db, req, q, WritesDone(f)), code |-> "REORDER_ERROR"]
    ELSE IF f = "none"
         THEN [db |-> CrossColumnWrites(db, req, 3), code |-> "OK"]
         ELSE [db |-> CrossColumnWrites(db, req, WritesDone(f)), code |-> "REORDER_ERROR"]

\* no order grows past the largest value the model covers
WithinOrders(db) == \A t \in DOMAIN db : db[t].order <= MaxOrder

\* one reorder request served from its first line to its answer
Reorder(req, f) ==
    /\ last.op = "none"
    /\ \E q \in SortedByOrder(tasks, ColumnIds(tasks, req.projectId, req.sourceStatus)) :
        LET r == ReorderResult(tasks, projects, req, f, q)
        IN  /\ WithinOrders(r.db)
            /\ tasks' = r.db
            /\ last' = [op |-> "reorder", req |-> req, pre |-> tasks, code |-> r.code]
    /\ UNCHANGED <<projects, nextId>>

\* the route with its validation middleware: handleValidationErrors answers
\* 400 before the handler runs, otherwise the handler serves the request
ReorderRoute(raw) ==
    /\ last.op = "none"
    /\ IF ValidationErrors(raw) # {}
       THEN /\ tasks' = tasks
            /\ last' = [op |-> "route", raw |-> raw, req |-> NoRequest, pre |-> tasks,
                        code |-> "VALIDATION_ERROR"]
       ELSE \E q \in SortedByOrder(tasks, ColumnIds(tasks, raw.id.n, raw.sourceStatus)) :
                LET r == ReorderResult(tasks, projects, Destructured(raw), "none", q)
                IN  /\ WithinOrders(r.db)
                    /\ tasks' = r.db
                    /\ last' = [op |-> "route", raw |-> raw, req |-> Destructured(raw),
                                pre |-> tasks, code |-> r.code]
    /\ UNCHANGED <<projects, nextId>>

\* the documents the writes of a served request update: every task of the
\* column for the bulkWrite; the task, the source tasks above it and the
\* destination tasks at or above the index for the three cross-column writes
Written(db, req) ==
    IF req.sourceStatus = req.destinationStatus
    THEN ColumnIds(db, req.projectId, req.sourceStatus)
    ELSE {req.taskId}
         \cup {t \in ColumnIds(db, req.projectId, req.sourceStatus) \ {req.taskId} :
                  db[t].order > db[req.taskId].order}
         \cup {t \in ColumnIds(db, req.projectId, req.destinationStatus) :
                  db[t].order >= req.destinationIndex}

\* the index a column shows task t at: the tasks of its column with a smaller order
IndexOf(db, t) ==
    Cardinality({u \in ColumnIds(db, db[t].projectId, db[t].status) :
                    db[u].order < db[t].order})

\* the request that takes the task of a served move back to the column and
\* the index it had in the collection pre
BackRequest(pre, req) ==
    [projectId |-> req.projectId, taskId |-> req.taskId,
     sourceStatus |-> req.destinationStatus, destinationStatus |-> req.sourceStatus,
     destinationIndex |-> IndexOf(pre, req.taskId)]

\* the answer of a successful move reaches the caller, who at once asks for the
\* move back, and the route serves that request
MoveBack ==
    /\ last.op = "reorder"
    /\ last.code = "OK"
    /\ LET back == BackRequest(last.pre, last.req)
       IN  \E q \in SortedByOrder(tasks, ColumnIds(tasks, back.projectId, back.sourceStatus)) :
               LET r == ReorderResult(tasks, projects, back, "none", q)
               IN  /\ WithinOrders(r.db)
                   /\ tasks' = r.db
                   /\ last' = [op |-> "back", req |-> back, pre |-> last.pre,
                               code |-> r.code, out |-> last.req]
    /\ UNCHANGED <<projects, nextId>>

\* ------------------------------------------- POST /:id/tasks
\* NextOrder taken as the number of tasks of the column
NextOrderByCount(db, p, s) == Cardinality(ColumnIds(db, p, s))

\* nextOrder = lastTask ? lastTask.order + 1 : 0
NextOrder(db, p, s) ==
    IF ColumnIds(db, p, s) = {}
    THEN 0
    ELSE (CHOOSE m \in OrdersOf(db, ColumnIds(db, p, s)) :
              \A o \in OrdersOf(db, ColumnIds(db, p, s)) : o <= m) + 1

CreateTask(p, s) ==
    /\ last.op = "none"
    /\ nextId <= NumTasks
    /\ IF p \in projects
       THEN /\ NextOrder(tasks, p, s) <= MaxOrder
            /\ tasks' = tasks @@ (nextId :> [projectId |-> p, status |-> s,
                                             order |-> NextOrder(tasks, p, s)])
            /\ nextId' = nextId + 1
            /\ last' = [op |-> "create", req |-> NoRequest, pre |-> tasks, code |-> "OK"]
       ELSE /\ UNCHANGED <<tasks, nextId>>
            /\ last' = [op |-> "create", req |-> NoRequest, pre |-> tasks,
                        code |-> "PROJECT_NOT_FOUND"]
    /\ UNCHANGED projects

\* ------------------------------------------- DELETE /tasks/:id
DeleteTask(t) ==
    /\ last.op = "none"
    /\ IF t \in DOMAIN tasks
       THEN /\ tasks' = [u \in DOMAIN tasks \ {t} |-> tasks[u]]
            /\ last' = [op |-> "delete", req |-> NoRequest, pre |-> tasks, code |-> "OK"]
       ELSE /\ UNCHANGED tasks
            /\ last' = [op |-> "delete", req |-> NoRequest, pre |-> tasks,
                        code |-> "TASK_NOT_FOUND"]
    /\ UNCHANGED <<projects, nextId>>

\* ------------------------------------------- PUT /tasks/:id
\* a body field that is absent
NoStatus == ""
NoOrder == -1

\* the bodies the validation lets through: status and order are optional
PutStatuses == Statuses \cup {NoStatus}
PutOrders == 0..MaxOrder \cup {NoOrder}

\* a task that changes column gets the order after the last task of the new
\* column, whatever order the body carried; otherwise the body's fields are set
PutTask(t, s, o) ==
    /\ last.op = "none"
    /\ IF t \notin DOMAIN tasks
       THEN /\ UNCHANGED tasks
            /\ last' = [op |-> "put", req |-> NoRequest, pre |-> tasks,
                        code |-> "TASK_NOT_FOUND", id |-> t, status |-> s, order |-> o]
       ELSE LET changed == s # NoStatus /\ s # tasks[t].status
                order == IF changed THEN NextOrder(tasks, tasks[t].projectId, s)
                         ELSE IF o # NoOrder THEN o ELSE tasks[t].order
                status == IF s # NoStatus THEN s ELSE tasks[t].status
            IN  /\ order <= MaxOrder
                /\ tasks' = [tasks EXCEPT ![t].status = status, ![t].order = order]
                /\ last' = [op |-> "put", req |-> NoRequest, pre |-> tasks,
                            code |-> "OK", id |-> t, status |-> s, order |-> o]
    /\ UNCHANGED <<projects, nextId>>

\* a body that carries a status and no order
PutStatus(t, s) == PutTask(t, s, NoOrder)

\* the order of a PUT body as it arrives: absent, or a number counted in halves
RawOrders ==
    {[present |-> FALSE, h |-> 0]} \cup {[present |-> TRUE, h |-> h] : h \in RawIndexes}

\* PUT /tasks/:id with taskUpdateValidation in front: status is optional().isIn,
\* order is optional().isInt({ min: 0 }); handleValidationErrors answers 400
\* before the handler runs
PutRoute(t, s, ro) ==
    IF (s # NoStatus /\ ~IsIn(s)) \/ (ro.present /\ ~IsInt(ro.h))
    THEN /\ last.op = "none"
         /\ last' = [op |-> "put", req |-> NoRequest, pre |-> tasks,
                     code |-> "VALIDATION_ERROR", id |-> t, status |-> s, order |-> NoOrder]
         /\ UNCHANGED <<projects, tasks, nextId>>
    ELSE PutTask(t, s, IF ro.present THEN ro.h \div 2 ELSE NoOrder)

\* ------------------------------------------- the route, await by await
Procs == {1, 2}

NoLocals == [taskOrder |-> 0, q |-> <<>>, k |-> 0, code |-> ""]

Busy(p) == pc[p] \notin {"idle", "done"}

\* Project.findById and Task.findOne: the handler holds its copy of the task
Begin(p, req) ==
    /\ pc[p] = "idle"
    /\ rq' = [rq EXCEPT ![p] = req]
    /\ overlapped' = (overlapped \/ \E o \in Procs \ {p} : Busy(o))
    /\ IF req.projectId \notin projects
       THEN /\ pc' = [pc EXCEPT ![p] = "done"]
            /\ loc' = [loc EXCEPT ![p].code = "PROJECT_NOT_FOUND"]
       ELSE IF ~FindTask(tasks, req)
       THEN /\ pc' = [pc EXCEPT ![p] = "done"]
            /\ loc' = [loc EXCEPT ![p].code = "TASK_NOT_FOUND"]
       ELSE /\ pc' = [pc EXCEPT ![p] = IF req.sourceStatus = req.destinationStatus
                                       THEN "find" ELSE "move"]
            /\ loc' = [loc EXCEPT ![p].taskOrder = tasks[req.taskId].order]
    /\ UNCHANGED <<serverVars, clientVars>>

\* Task.find({ projectId, status: sourceStatus }).sort({ order: 1 }), findIndex, the splices
FindColumn(p) ==
    /\ pc[p] = "find"
    /\ \E q \in SortedByOrder(tasks, ColumnIds(tasks, rq[p].projectId, rq[p].sourceStatus)) :
        IF FindIndex(q, rq[p].taskId) = 0
        THEN /\ pc' = [pc EXCEPT ![p] = "done"]
             /\ loc' = [loc EXCEPT ![p].code = "REORDER_ERROR"]
        ELSE /\ pc' = [pc EXCEPT ![p] = "bulk"]
             /\ loc' = [loc EXCEPT ![p].q = Respliced(q, rq[p])]
    /\ UNCHANGED <<serverVars, clientVars, rq, overlapped>>

\* the next operation of Task.bulkWrite
BulkStep(p) ==
    /\ pc[p] = "bulk"
    /\ tasks' = UpdateOne(tasks, loc[p].q, loc[p].k + 1)
    /\ loc' = [loc EXCEPT ![p].k = @ + 1]
    /\ pc' = [pc EXCEPT ![p] = IF loc[p].k + 1 = Len(loc[p].q) THEN "finish" ELSE "bulk"]
    /\ UNCHANGED <<projects, nextId, last, clientVars, rq, overlapped>>

\* Task.findByIdAndUpdate
MoveStep(p) ==
    /\ pc[p] = "move"
    /\ tasks' = MoveTask(tasks, rq[p])
    /\ pc' = [pc EXCEPT ![p] = "close"]
    /\ UNCHANGED <<projects, nextId, last, clientVars, rq, loc, overlapped>>

\* the first Task.updateMany
CloseStep(p) ==
    /\ pc[p] = "close"
    /\ tasks' = CloseGap(tasks, rq[p], loc[p].taskOrder)
    /\ pc' = [pc EXCEPT ![p] = "space"]
    /\ UNCHANGED <<projects, nextId, last, clientVars, rq, loc, overlapped>>

\* the second Task.updateMany
SpaceStep(p) ==
    /\ pc[p] = "space"
    /\ tasks' = MakeSpace(tasks, rq[p])
    /\ WithinOrders(tasks')
    /\ pc' = [pc EXCEPT ![p] = "finish"]
    /\ UNCHANGED <<projects, nextId, last, clientVars, rq, loc, overlapped>>

\* Task.findById(taskId) and res.json
Finish(p) ==
    /\ pc[p] = "finish"
    /\ pc' = [pc EXCEPT ![p] = "done"]
    /\ loc' = [loc EXCEPT ![p].code = "OK"]
    /\ UNCHANGED <<serverVars, clientVars, rq, overlapped>>

\* ------------------------------------------- DELETE /:id, await by await
\* the request of a handler that deletes project d, or creates a task of
\* project d in column s
ProjectRequest(d, s) ==
    [projectId |-> d, taskId |-> 0, sourceStatus |-> s, destinationStatus |-> s,
     destinationIndex |-> 0]

\* Project.findById, then Task.countDocuments
BeginDelete(p, d) ==
    /\ pc[p] = "idle"
    /\ rq' = [rq EXCEPT ![p] = ProjectRequest(d, "")]
    /\ overlapped' = (overlapped \/ \E o \in Procs \ {p} : Busy(o))
    /\ IF d \notin projects
       THEN /\ pc' = [pc EXCEPT ![p] = "done"]
            /\ loc' = [loc EXCEPT ![p].code = "PROJECT_NOT_FOUND"]
       ELSE /\ pc' = [pc EXCEPT ![p] = "deleteMany"]
            /\ loc' = loc
    /\ UNCHANGED <<serverVars, clientVars>>

\* Task.deleteMany({ projectId })
DeleteManyStep(p) ==
    /\ pc[p] = "deleteMany"
    /\ tasks' = [t \in {u \in DOMAIN tasks : tasks[u].projectId # rq[p].projectId}
                    |-> tasks[t]]
    /\ pc' = [pc EXCEPT ![p] = "deleteProject"]
    /\ UNCHANGED <<projects, nextId, last, clientVars, rq, loc, overlapped>>

\* Project.findByIdAndDelete(projectId) and res.json
DeleteProjectStep(p) ==
    /\ pc[p] = "deleteProject"
    /\ projects' = projects \ {rq[p].projectId}
    /\ pc' = [pc EXCEPT ![p] = "done"]
    /\ loc' = [loc EXCEPT ![p].code = "DELETED"]
    /\ UNCHANGED <<tasks, nextId, last, clientVars, rq, overlapped>>

\* ------------------------------------------- POST /:id/tasks, await by await
\* Project.findById
BeginCreate(p, d, s) ==
    /\ pc[p] = "idle"
    /\ rq' = [rq EXCEPT ![p] = ProjectRequest(d, s)]
    /\ overlapped' = (overlapped \/ \E o \in Procs \ {p} : Busy(o))
    /\ IF d \notin projects
       THEN /\ pc' = [pc EXCEPT ![p] = "done"]
            /\ loc' = [loc EXCEPT ![p].code = "PROJECT_NOT_FOUND"]
       ELSE /\ pc' = [pc EXCEPT ![p] = "findLast"]
            /\ loc' = loc
    /\ UNCHANGED <<serverVars, clientVars>>

\* Task.findOne({ projectId, status }).sort({ order: -1 }); nextOrder
FindLastStep(p) ==
    /\ pc[p] = "findLast"
    /\ NextOrder(tasks, rq[p].projectId, rq[p].sourceStatus) <= MaxOrder
    /\ loc' = [loc EXCEPT ![p].taskOrder =
                   NextOrder(tasks, rq[p].projectId, rq[p].sourceStatus)]
    /\ pc' = [pc EXCEPT ![p] = "save"]
    /\ UNCHANGED <<serverVars, clientVars, rq, overlapped>>

\* task.save() and res.status(201).json
SaveStep(p) ==
    /\ pc[p] = "save"
    /\ nextId <= NumTasks
    /\ tasks' = tasks @@ (nextId :> [projectId |-> rq[p].projectId,
                                     status |-> rq[p].sourceStatus,
                                     order |-> loc[p].taskOrder])
    /\ nextId' = nextId + 1
    /\ pc' = [pc EXCEPT ![p] = "done"]
    /\ loc' = [loc EXCEPT ![p].code = "CREATED"]
    /\ UNCHANGED <<projects, last, clientVars, rq, overlapped>>

\* ------------------------------------------- GET /:id/tasks
\* the task object the API returns for a stored task
TaskObject(db, t) == [id |-> t, status |-> db[t].status, order |-> db[t].order]

\* ids of S sorted by order, then createdAt (ids are handed out in creation order)
ByOrderThenCreated(db, S) ==
    CHOOSE q \in [1..Cardinality(S) -> S] :
        /\ \A i, j \in 1..Cardinality(S) : i # j => q[i] # q[j]
        /\ \A i, j \in 1..Cardinality(S) : i < j =>
              \/ db[q[i]].order < db[q[j]].order
              \/ (db[q[i]].order = db[q[j]].order /\ q[i] < q[j])

ColumnList(db, p, s) ==
    LET q == ByOrderThenCreated(db, ColumnIds(db, p, s))
    IN  [i \in 1..Len(q) |-> TaskObject(db, q[i])]

\* Task.find({ projectId }).sort({ status: 1, order: 1, createdAt: 1 })
TaskList(db, p) ==
    ColumnList(db, p, "done") \o ColumnList(db, p, "inprogress") \o ColumnList(db, p, "todo")

\* ------------------------------------------- ProjectBoard
Slots == {1, 2}

NoDrag == [id |-> 0, droppableId |-> "", index |-> 0]

NoHandler ==
    [phase |-> "free", req |-> NoRequest, originalTasks |-> <<>>, finalTasks |-> <<>>,
     retried |-> FALSE, served |-> 0, code |-> "", clean |-> TRUE]

NoEvent == [kind |-> "none", before |-> <<>>, clean |-> TRUE, gotOk |-> FALSE, toasts |-> 0]

NoTeardown == [done |-> FALSE, tasks |-> <<>>, toasts |-> 0, getting |-> {}]

NoHistory == [base |-> <<>>, confirmed |-> {}, failedSnap |-> {}, failedOpt |-> {}]

\* tasks.findIndex(t => t._id === draggableId), 1-based; 0 for -1
PositionOf(list, id) ==
    IF \E i \in 1..Len(list) : list[i].id = id
    THEN CHOOSE i \in 1..Len(list) : list[i].id = id
    ELSE 0

\* getTasksByStatus: the index at which a column shows the task at position i of
\* the list (filter by status, stable sort by order)
DisplayIndex(list, i) ==
    Cardinality({j \in 1..Len(list) :
        /\ list[j].status = list[i].status
        /\ \/ list[j].order < list[i].order
           \/ (list[j].order = list[i].order /\ j < i)})

\* the number of cards a column shows
ColumnSize(list, s) == Cardinality({j \in 1..Len(list) : list[j].status = s})

\* array.slice(0, n) and array.slice(n)
SliceTo(q, n) == SubSeq(q, 1, IF n > Len(q) THEN Len(q) ELSE n)
SliceFrom(q, n) == SubSeq(q, (IF n > Len(q) THEN Len(q) ELSE n) + 1, Len(q))

\* finalTasks of handleDragEnd
OptimisticTasks(list, id, droppableId, index) ==
    LET taskIndex == PositionOf(list, id)
        newTasks == SubSeq(list, 1, taskIndex - 1) \o SubSeq(list, taskIndex + 1, Len(list))
        updatedTask == [list[taskIndex] EXCEPT !.status = droppableId]
        InDestination(t) == t.status = droppableId
        NotInDestination(t) == t.status # droppableId
        destinationTasks == SelectSeq(newTasks, InDestination)
        allTasksBeforeDestination == SelectSeq(newTasks, NotInDestination)
    IN  allTasksBeforeDestination \o SliceTo(destinationTasks, index)
            \o <<updatedTask>> \o SliceFrom(destinationTasks, index)

Pending(h) == hd[h].phase # "free"
NonePending == \A h \in Slots : ~Pending(h)

\* a setTasks call made by handler h: the other running handlers saw the list change
Touched(h, new) ==
    [o \in Slots |-> IF o = h THEN new
                     ELSE IF Pending(o) THEN [hd[o] EXCEPT !.clean = FALSE] ELSE hd[o]]

\* setTasks(new): React drops a state update of a component that is unmounted
SetTasks(new) == IF teardown.done THEN ctasks ELSE new

\* the page is left while it is shown: the component unmounts; the handlers
\* that are running keep running
Unmount ==
    /\ loaded
    /\ ~teardown.done
    /\ teardown' = [done |-> TRUE, tasks |-> ctasks, toasts |-> toasts,
                    getting |-> {h \in Slots : hd[h].phase = "getting"}]
    /\ drag' = NoDrag
    /\ ev' = NoEvent
    /\ UNCHANGED <<serverVars, concVars, loaded, ctasks, hd, drags, toasts, hist>>

\* loadProjectData: setTasks(tasksResponse.data || [])
LoadProjectData ==
    /\ ~loaded
    /\ last.op = "none"
    /\ loaded' = TRUE
    /\ ctasks' = TaskList(tasks, 1)
    /\ hist' = [NoHistory EXCEPT !.base = TaskList(tasks, 1)]
    /\ UNCHANGED <<serverVars, concVars, teardown, drag, hd, drags, toasts, ev>>

\* handleDragStart, for the card of the task at position i of the list
HandleDragStart(i) ==
    /\ loaded
    /\ ~teardown.done
    /\ drag = NoDrag
    /\ drags < MaxDrags
    /\ drag' = [id |-> ctasks[i].id, droppableId |-> ctasks[i].status,
                index |-> DisplayIndex(ctasks, i)]
    /\ ev' = NoEvent
    /\ UNCHANGED <<serverVars, concVars, teardown, loaded, ctasks, hd, drags, toasts, hist>>

\* what a drop that returns early leaves for the record: the drop result
IgnoredEvent(hasDestination, droppableId, index) ==
    [kind |-> "ignored", before |-> ctasks, clean |-> TRUE, gotOk |-> FALSE,
     toasts |-> toasts, source |-> drag, hasDestination |-> hasDestination,
     droppableId |-> droppableId, index |-> index]

\* HandleDragEndIgnored without the early returns for a task that is in the list
HandleDragEndNoReturn(hasDestination, droppableId, index) ==
    /\ drag # NoDrag
    /\ \/ ~hasDestination
       \/ (droppableId = drag.droppableId /\ index = drag.index)
       \/ PositionOf(ctasks, drag.id) = 0
    /\ drag' = NoDrag
    /\ drags' = drags + 1
    /\ ev' = IgnoredEvent(hasDestination, droppableId, index)
    /\ ctasks' = IF PositionOf(ctasks, drag.id) = 0 THEN ctasks
                 ELSE OptimisticTasks(ctasks, drag.id, drag.droppableId, index)
    /\ UNCHANGED <<serverVars, concVars, teardown, loaded, hd, toasts, hist>>

\* handleDragEnd for a drop that returns before the optimistic update:
\* no destination, the position the card came from, or a task not in the list
HandleDragEndIgnored(hasDestination, droppableId, index) ==
    /\ drag # NoDrag
    /\ \/ ~hasDestination
       \/ (droppableId = drag.droppableId /\ index = drag.index)
       \/ PositionOf(ctasks, drag.id) = 0
    /\ drag' = NoDrag
    /\ drags' = drags + 1
    /\ ev' = IgnoredEvent(hasDestination, droppableId, index)
    /\ UNCHANGED <<serverVars, concVars, teardown, loaded, ctasks, hd, toasts, hist>>

\* handleTaskDelete, called when the task modal has deleted the task at
\* position i of the list on the server: setTasks(prev.filter(...))
HandleTaskDelete(i) ==
    /\ loaded
    /\ ~teardown.done
    /\ i \in 1..Len(ctasks)
    /\ tasks' = [u \in DOMAIN tasks \ {ctasks[i].id} |-> tasks[u]]
    /\ ctasks' = SubSeq(ctasks, 1, i - 1) \o SubSeq(ctasks, i + 1, Len(ctasks))
    /\ hd' = [o \in Slots |-> IF Pending(o) THEN [hd[o] EXCEPT !.clean = FALSE] ELSE hd[o]]
    /\ ev' = NoEvent
    /\ UNCHANGED <<projects, nextId, last, concVars, teardown, loaded, drag, drags,
                   toasts, hist>>

\* handleDragEnd up to its first await: snapshot, optimistic update, request sent
HandleDragEnd(h, droppableId, index) ==
    /\ drag # NoDrag
    /\ ~(droppableId = drag.droppableId /\ index = drag.index)
    /\ PositionOf(ctasks, drag.id) # 0
    /\ ~Pending(h)
    /\ \A o \in Slots : o < h => Pending(o)
    /\ drag' = NoDrag
    /\ drags' = drags + 1
    /\ ctasks' = OptimisticTasks(ctasks, drag.id, droppableId, index)
    /\ hd' = Touched(h, [phase |-> "sent",
                         req |-> [projectId |-> 1, taskId |-> drag.id,
                                  sourceStatus |-> drag.droppableId,
                                  destinationStatus |-> droppableId,
                                  destinationIndex |-> index],
                         originalTasks |-> ctasks,
                         finalTasks |-> OptimisticTasks(ctasks, drag.id, droppableId, index),
                         retried |-> FALSE, served |-> 0, code |-> "", clean |-> TRUE])
    /\ hist' = IF NonePending
               THEN [base |-> ctasks, confirmed |-> {}, failedSnap |-> {}, failedOpt |-> {}]
               ELSE hist
    /\ ev' = NoEvent
    /\ UNCHANGED <<serverVars, concVars, teardown, loaded, toasts>>

\* the reorder request of handler h reaches the route and is served
ServeReorder(h, f) ==
    /\ hd[h].phase = "sent"
    /\ \E q \in SortedByOrder(tasks, ColumnIds(tasks, hd[h].req.projectId, hd[h].req.sourceStatus)) :
        LET r == ReorderResult(tasks, projects, hd[h].req, f, q)
        IN  /\ WithinOrders(r.db)
            /\ tasks' = r.db
            /\ hd' = [hd EXCEPT ![h].phase = "answered", ![h].code = r.code,
                                 ![h].served = @ + 1]
    /\ ev' = NoEvent
    /\ UNCHANGED <<projects, nextId, last, concVars, teardown, loaded, ctasks, drag, drags, toasts, hist>>

\* await projectsAPI.reorderTasks resolves; projectsAPI.getTasks is called
ReorderResolved(h) ==
    /\ hd[h].phase = "answered"
    /\ hd[h].code = "OK"
    /\ hd' = [hd EXCEPT ![h].phase = "getting"]
    /\ ev' = NoEvent
    /\ UNCHANGED <<serverVars, concVars, teardown, loaded, ctasks, drag, drags, toasts, hist>>

\* Rollback that puts back the optimistic list instead of the snapshot
RollbackToFinal(h) ==
    /\ ctasks' = SetTasks(hd[h].finalTasks)
    /\ toasts' = toasts + 1
    /\ hd' = Touched(h, NoHandler)
    /\ ev' = [kind |-> "rolledback", before |-> hd[h].originalTasks, clean |-> hd[h].clean,
              gotOk |-> hd[h].phase = "getting", toasts |-> toasts]
    /\ hist' = [hist EXCEPT !.failedSnap = @ \cup {hd[h].originalTasks},
                            !.failedOpt = @ \cup {hd[h].finalTasks}]
    /\ UNCHANGED <<serverVars, concVars, teardown, loaded, drag, drags>>

\* the catch block: setTasks(originalTasks); handleError(...) shows the toast
Rollback(h) ==
    /\ ctasks' = SetTasks(hd[h].originalTasks)
    /\ toasts' = toasts + 1
    /\ hd' = Touched(h, NoHandler)
    /\ ev' = [kind |-> "rolledback", before |-> hd[h].originalTasks, clean |-> hd[h].clean,
              gotOk |-> hd[h].phase = "getting", toasts |-> toasts]
    /\ hist' = [hist EXCEPT !.failedSnap = @ \cup {hd[h].originalTasks},
                            !.failedOpt = @ \cup {hd[h].finalTasks}]
    /\ UNCHANGED <<serverVars, concVars, teardown, loaded, drag, drags>>

\* the route answered with an error status: axios rejects
ReorderRejected(h) ==
    /\ hd[h].phase = "answered"
    /\ hd[h].code # "OK"
    /\ Rollback(h)

\* ReorderTimeout whose retry clears the _retry flag it finds set
ReorderTimeoutFlip(h) ==
    /\ hd[h].phase \in {"sent", "answered"}
    /\ hd' = [hd EXCEPT ![h].phase = "sent", ![h].retried = ~@, ![h].code = ""]
    /\ ev' = NoEvent
    /\ UNCHANGED <<serverVars, concVars, teardown, loaded, ctasks, drag, drags, toasts, hist>>

\* ECONNABORTED: the response interceptor sends the request once more; a
\* second timeout rejects
ReorderTimeout(h) ==
    /\ hd[h].phase \in {"sent", "answered"}
    /\ IF hd[h].retried
       THEN Rollback(h)
       ELSE /\ hd' = [hd EXCEPT ![h].phase = "sent", ![h].retried = TRUE, ![h].code = ""]
            /\ ev' = NoEvent
            /\ UNCHANGED <<serverVars, concVars, teardown, loaded, ctasks, drag, drags, toasts, hist>>

\* ERR_NETWORK: the request or its response is lost; the interceptor rejects
ReorderNetworkError(h) ==
    /\ hd[h].phase \in {"sent", "answered"}
    /\ Rollback(h)

\* await projectsAPI.getTasks resolves: setTasks(tasksResponse.data || [])
GetTasksResolved(h) ==
    /\ hd[h].phase = "getting"
    /\ ctasks' = SetTasks(TaskList(tasks, 1))
    /\ hd' = Touched(h, NoHandler)
    /\ ev' = [kind |-> "reconciled", before |-> hd[h].originalTasks, clean |-> hd[h].clean,
              gotOk |-> TRUE, toasts |-> toasts]
    /\ hist' = [hist EXCEPT !.confirmed = @ \cup {TaskList(tasks, 1)}]
    /\ UNCHANGED <<serverVars, concVars, teardown, loaded, drag, drags, toasts>>

\* projectsAPI.getTasks rejects (error status, timeout after the retry, no network)
GetTasksRejected(h) ==
    /\ hd[h].phase = "getting"
    /\ Rollback(h)

\* ------------------------------------------------------ specifications
EmptyDb == [t \in {} |-> [projectId |-> 0, status |-> "", order |-> 0]]

NoAnswer == [op |-> "none", req |-> NoRequest, pre |-> EmptyDb, code |-> ""]

\* res.json(...) reaches the caller; the next request can be served
Answer ==
    /\ last.op # "none"
    /\ last' = NoAnswer
    /\ UNCHANGED <<projects, tasks, nextId>>

InitConc ==
    /\ pc = [p \in Procs |-> "idle"]
    /\ rq = [p \in Procs |-> NoRequest]
    /\ loc = [p \in Procs |-> NoLocals]
    /\ overlapped = FALSE

InitBoard ==
    /\ loaded = FALSE
    /\ ctasks = <<>>
    /\ drag = NoDrag
    /\ hd = [h \in Slots |-> NoHandler]
    /\ drags = 0
    /\ toasts = 0
    /\ ev = NoEvent
    /\ teardown = NoTeardown
    /\ hist = NoHistory

Init ==
    /\ projects = {1}
    /\ tasks = EmptyDb
    /\ nextId = 1
    /\ last = NoAnswer
    /\ InitConc
    /\ InitBoard

\* the request names the column the task is in
FreshSource(req) ==
    req.taskId \in DOMAIN tasks => tasks[req.taskId].status = req.sourceStatus

CreateStep ==
    /\ last.op = "none"
    /\ \E p \in ProjectIds, s \in Statuses : CreateTask(p, s)
    /\ UNCHANGED <<concVars, clientVars>>
DeleteStep ==
    /\ last.op = "none"
    /\ \E t \in TaskIds : DeleteTask(t)
    /\ UNCHANGED <<concVars, clientVars>>
ReorderStep ==
    /\ last.op = "none"
    /\ \E req \in ReorderRequests : Reorder(req, "none")
    /\ UNCHANGED <<concVars, clientVars>>
FreshReorderStep ==
    /\ last.op = "none"
    /\ \E req \in ReorderRequests : FreshSource(req) /\ Reorder(req, "none")
    /\ UNCHANGED <<concVars, clientVars>>
FailingReorderStep ==
    /\ last.op = "none"
    /\ \E req \in ReorderRequests, f \in FailPoints : FreshSource(req) /\ Reorder(req, f)
    /\ UNCHANGED <<concVars, clientVars>>
AnswerStep ==
    /\ Answer
    /\ UNCHANGED <<concVars, clientVars>>

\* requests served one at a time, the storage layer never failing
Next == CreateStep \/ DeleteStep \/ ReorderStep \/ AnswerStep
Spec == Init /\ [][Next]_vars

\* moves only, each naming the task's current column; no deletions
NextMoves == CreateStep \/ FreshReorderStep \/ AnswerStep
SpecMoves == Init /\ [][NextMoves]_vars

\* requests served one at a time over a storage layer that can fail
NextFail == CreateStep \/ DeleteStep \/ FailingReorderStep \/ AnswerStep
SpecFail == Init /\ [][NextFail]_vars

\* two handlers of the route run concurrently on a board built by creations;
\* each request names the task's current column and a position of the
\* destination column as they are when the request begins
BeginStep ==
    \E p \in Procs :
        /\ pc[p] = "idle"
        /\ \A o \in Procs : o < p => pc[o] # "idle"    \* handlers are numbered as they begin
        /\ last.op = "none"
        /\ \E t \in DOMAIN tasks, d \in Statuses :
            \E i \in 0..Cardinality(ColumnIds(tasks, tasks[t].projectId, d)) :
                /\ i \in Indexes
                /\ Begin(p, [projectId |-> tasks[t].projectId, taskId |-> t,
                             sourceStatus |-> tasks[t].status, destinationStatus |-> d,
                             destinationIndex |-> i])
HandlerStep ==
    \E p \in Procs :
        FindColumn(p) \/ BulkStep(p) \/ MoveStep(p) \/ CloseStep(p) \/ SpaceStep(p) \/ Finish(p)
Quiet == \A p \in Procs : pc[p] = "idle"
NextConc ==
    \/ (Quiet /\ CreateStep)
    \/ (Quiet /\ AnswerStep)
    \/ BeginStep
    \/ HandlerStep
SpecConc == Init /\ [][NextConc]_vars

\* one board page over the server: tasks are created, the page loads, cards
\* are dragged; requests and responses can be slow, lost or refused
ClientFailPoints == {"none", "0"}
DragStartStep == \E i \in 1..Len(ctasks) : HandleDragStart(i)
DropIgnoredStep ==
    \/ HandleDragEndIgnored(FALSE, "", 0)
    \/ HandleDragEndIgnored(TRUE, drag.droppableId, drag.index)
DropStep ==
    \E h \in Slots, d \in Statuses :
        \E i \in 0..(ColumnSize(ctasks, d) - (IF d = drag.droppableId THEN 1 ELSE 0)) :
            HandleDragEnd(h, d, i)
ServeStep == \E h \in Slots, f \in ClientFailPoints : ServeReorder(h, f)
Response(h) ==
    \/ ReorderResolved(h)
    \/ ReorderRejected(h)
    \/ ReorderTimeout(h)
    \/ ReorderNetworkError(h)
    \/ GetTasksResolved(h)
    \/ GetTasksRejected(h)
ResponseStep == \E h \in Slots : Response(h)
NextBoard ==
    \/ (~loaded /\ nextId <= BoardTasks /\ CreateStep)
    \/ (~loaded /\ AnswerStep)
    \/ LoadProjectData
    \/ DragStartStep
    \/ DropIgnoredStep
    \/ DropStep
    \/ ServeStep
    \/ ResponseStep
SpecBoard == Init /\ [][NextBoard]_vars

\* the same board, on which a deletion made through the task modal can
\* complete while a card is dragged; the drop can then be of a task that is no
\* longer in the list
TaskDeleteStep == drag # NoDrag /\ \E i \in 1..Len(ctasks) : HandleTaskDelete(i)
DropAnywhereStep ==
    \E d \in Statuses, i \in 0..BoardTasks : HandleDragEndIgnored(TRUE, d, i)
NextEdit == NextBoard \/ TaskDeleteStep \/ DropAnywhereStep
SpecEdit == Init /\ [][NextEdit]_vars

\* the same board, which the user can leave at any time
UnmountStep == Unmount
NextUnmount == NextBoard \/ UnmountStep
SpecUnmount == Init /\ [][NextUnmount]_vars

\* the same, when every awaited request ends: its response arrives, or the
\* 30 s timeout of the axios instance fires
SpecBoardFair == SpecBoard /\ \A h \in Slots : WF_vars(Response(h))

\* creations, deletions and moves that name the task's current column, served
\* one at a time; a move can be followed at once by the move back
MoveBackStep ==
    /\ MoveBack
    /\ UNCHANGED <<concVars, clientVars>>
NextTrip == CreateStep \/ DeleteStep \/ FreshReorderStep \/ MoveBackStep \/ AnswerStep
SpecTrip == Init /\ [][NextTrip]_vars

\* creations, deletions, status changes by PUT and moves that name the task's
\* current column, served one at a time
PutStatusStep ==
    /\ last.op = "none"
    /\ \E t \in TaskIds, s \in Statuses : PutStatus(t, s)
    /\ UNCHANGED <<concVars, clientVars>>
NextTasks == CreateStep \/ DeleteStep \/ PutStatusStep \/ FreshReorderStep \/ AnswerStep
SpecTasks == Init /\ [][NextTasks]_vars

\* the same with any PUT body the validation lets through
PutStep ==
    /\ last.op = "none"
    /\ \E t \in TaskIds, s \in PutStatuses, o \in PutOrders : PutTask(t, s, o)
    /\ UNCHANGED <<concVars, clientVars>>
NextPut == CreateStep \/ DeleteStep \/ PutStep \/ FreshReorderStep \/ AnswerStep
SpecPut == Init /\ [][NextPut]_vars

\* creations, deletions and the moves a board sends for a drop: the request
\* names the task's current column and an index the destination column has
\* (Column renders one draggable per task, a drop lands between them)
BoardRequest(req) ==
    /\ FreshSource(req)
    /\ req.destinationIndex
         <= Cardinality(ColumnIds(tasks, req.projectId, req.destinationStatus))
BoardReorderStep ==
    /\ last.op = "none"
    /\ \E req \in ReorderRequests : BoardRequest(req) /\ Reorder(req, "none")
    /\ UNCHANGED <<concVars, clientVars>>
NextDrops == CreateStep \/ DeleteStep \/ BoardReorderStep \/ AnswerStep
SpecDrops == Init /\ [][NextDrops]_vars

\* every way an order is written: creations, deletions, PUT bodies through
\* their validation and reorder requests that need not name the task's
\* column, served one at a time; then two reorder handlers, their requests
\* again free to name any column, run concurrently
PutRouteStep ==
    /\ last.op = "none"
    /\ \E t \in TaskIds, s \in RawStatuses \cup {NoStatus}, ro \in RawOrders :
        PutRoute(t, s, ro)
    /\ UNCHANGED <<concVars, clientVars>>
AnyBeginStep ==
    \E p \in Procs :
        /\ pc[p] = "idle"
        /\ \A o \in Procs : o < p => pc[o] # "idle"
        /\ last.op = "none"
        /\ \E t \in DOMAIN tasks, s \in Statuses, d \in Statuses :
            \E i \in 0..Cardinality(ColumnIds(tasks, tasks[t].projectId, d)) :
                Begin(p, [projectId |-> tasks[t].projectId, taskId |-> t,
                          sourceStatus |-> s, destinationStatus |-> d,
                          destinationIndex |-> i])
NextOrders ==
    \/ (Quiet /\ nextId <= BoardTasks /\ CreateStep)
    \/ (Quiet /\ DeleteStep)
    \/ (Quiet /\ PutRouteStep)
    \/ (Quiet /\ ReorderStep)
    \/ (Quiet /\ AnswerStep)
    \/ AnyBeginStep
    \/ HandlerStep
SpecOrders == Init /\ [][NextOrders]_vars

\* two projects exist, one of them with custom columns; a few tasks are
\* created and any request, well-formed or not, arrives at the reorder route
InitProjects ==
    /\ projects = ProjectIds
    /\ tasks = EmptyDb
    /\ nextId = 1
    /\ last = NoAnswer
    /\ InitConc
    /\ InitBoard
RouteStep ==
    /\ last.op = "none"
    /\ \E raw \in RawRequests : ReorderRoute(raw)
    /\ UNCHANGED <<concVars, clientVars>>
NextRoute ==
    \/ (nextId <= BoardTasks /\ CreateStep)
    \/ RouteStep
    \/ AnswerStep
SpecRoute == InitProjects /\ [][NextRoute]_vars

\* two projects with a few tasks; then two handlers, each deleting a project or
\* creating a task, run concurrently
ProjectBeginStep ==
    \E p \in Procs :
        /\ pc[p] = "idle"
        /\ \A o \in Procs : o < p => pc[o] # "idle"
        /\ last.op = "none"
        /\ \/ \E d \in ProjectIds : BeginDelete(p, d)
           \/ \E d \in ProjectIds, s \in Statuses : BeginCreate(p, d, s)
ProjectHandlerStep ==
    \E p \in Procs :
        DeleteManyStep(p) \/ DeleteProjectStep(p) \/ FindLastStep(p) \/ SaveStep(p)
NextCascade ==
    \/ (Quiet /\ nextId <= BoardTasks /\ CreateStep)
    \/ (Quiet /\ AnswerStep)
    \/ ProjectBeginStep
    \/ ProjectHandlerStep
SpecCascade == InitProjects /\ [][NextCascade]_vars

\* ------------------------------------------------------------ properties
\* the order values of a column are exactly 0..n-1
Dense(db, p, s) ==
    OrdersOf(db, ColumnIds(db, p, s)) = 0..(Cardinality(ColumnIds(db, p, s)) - 1)

\* a reorder request was just answered with success
Reordered == last.op = "reorder" /\ last.code = "OK"

\* ... and it found its task in the column it named
MovedFromSource ==
    /\ Reordered
    /\ last.pre[last.req.taskId].status = last.req.sourceStatus

CrossColumn == last.req.sourceStatus # last.req.destinationStatus

\* the tasks that were in the request's source / destination column before it
SourceBefore == ColumnIds(last.pre, last.req.projectId, last.req.sourceStatus)
DestBefore == ColumnIds(last.pre, last.req.projectId, last.req.destinationStatus)

\* C1 (stated as claimed): after every successful reorder of a run of creations
\* and moves that name the task's current column, every column of the project
\* holds the orders 0..n-1.
C1_DensityAfterMove ==
    Reordered => \A s \in Statuses : Dense(tasks, last.req.projectId, s)

\* C2: after a successful cross-column reorder of a task that was in the source
\* column with order k, the task is in the destination column with order
\* destinationIndex, the other source tasks above k moved down by one, the
\* destination tasks at or above destinationIndex moved up by one, and no other
\* task changed.
C2_CrossColumnMove ==
    (MovedFromSource /\ CrossColumn) =>
        LET m == last.req.taskId
            k == last.pre[m].order
            d == last.req.destinationIndex
        IN  /\ DOMAIN tasks = DOMAIN last.pre
            /\ tasks[m].status = last.req.destinationStatus
            /\ tasks[m].order = d
            /\ tasks[m].projectId = last.pre[m].projectId
            /\ \A t \in DOMAIN tasks \ {m} :
                /\ tasks[t].status = last.pre[t].status
                /\ tasks[t].projectId = last.pre[t].projectId
                /\ tasks[t].order =
                     IF t \in SourceBefore /\ last.pre[t].order > k
                     THEN last.pre[t].order - 1
                     ELSE IF t \in DestBefore /\ last.pre[t].order >= d
                     THEN last.pre[t].order + 1
                     ELSE last.pre[t].order

\* a cross-column move that shifted a source task down and a destination task up
C2_Witness ==
    /\ MovedFromSource /\ CrossColumn
    /\ \E t \in SourceBefore : tasks[t].order = last.pre[t].order - 1
    /\ \E t \in DestBefore : tasks[t].order = last.pre[t].order + 1

\* C3: after a successful in-column reorder of a column of n tasks the column
\* holds the orders 0..n-1, the moved task has order min(destinationIndex, n-1),
\* and the other tasks keep the relative order they had, also when the column
\* had gaps before.
C3_InColumnMove ==
    (MovedFromSource /\ ~CrossColumn) =>
        LET m == last.req.taskId
            n == Cardinality(SourceBefore)
            d == last.req.destinationIndex
        IN  /\ ColumnIds(tasks, last.req.projectId, last.req.sourceStatus) = SourceBefore
            /\ Dense(tasks, last.req.projectId, last.req.sourceStatus)
            /\ tasks[m].order = IF d < n - 1 THEN d ELSE n - 1
            /\ \A a, b \in SourceBefore \ {m} :
                  last.pre[a].order < last.pre[b].order => tasks[a].order < tasks[b].order
            /\ \A t \in DOMAIN tasks \ SourceBefore : tasks[t] = last.pre[t]

\* an in-column move of a column of three tasks whose orders had a gap
C3_Witness ==
    /\ MovedFromSource /\ ~CrossColumn
    /\ Cardinality(SourceBefore) = 3
    /\ ~Dense(last.pre, last.req.projectId, last.req.sourceStatus)
    /\ tasks[last.req.taskId].order = 1

\* C4 (stated as claimed): a destinationIndex beyond the number of tasks of the
\* destination column appends: the moved task gets the last dense position, n-1
\* within its own column of n tasks, n in another column that held n tasks.
C4_ClampedAppend ==
    (MovedFromSource /\ last.req.destinationIndex > Cardinality(DestBefore)) =>
        LET m == last.req.taskId
            n == Cardinality(DestBefore)
        IN  /\ tasks[m].order = IF CrossColumn THEN n ELSE n - 1
            /\ \A t \in DestBefore \ {m} : tasks[t].order < tasks[m].order

\* C5 (stated as claimed): a request whose sourceStatus is not the stored status
\* of its task is refused and writes nothing.
C5_StaleMoveRefused ==
    (/\ last.op = "reorder"
     /\ last.req.projectId \in projects
     /\ last.req.taskId \in DOMAIN last.pre
     /\ last.pre[last.req.taskId].projectId = last.req.projectId
     /\ last.pre[last.req.taskId].status # last.req.sourceStatus)
    => (last.code # "OK" /\ tasks = last.pre)

\* C6 (stated as claimed): a reorder during which the storage layer failed
\* answers with an error and leaves every task as it was before the request.
C6_AllOrNothing ==
    (last.op = "reorder" /\ last.code # "OK") => tasks = last.pre

\* every concurrent handler has answered with success
AllAnswered == \A p \in Procs : pc[p] = "done" /\ loc[p].code = "OK"

\* C7: without a lock two concurrent reorder requests on one column can leave
\* it with a gap or a duplicate after both succeeded; whenever two in-range
\* requests have both succeeded and a column is not dense, the two handlers
\* ran interleaved (served one after the other they leave every column dense).
C7_LostUpdateNeedsInterleaving ==
    (AllAnswered /\ \E s \in Statuses : ~Dense(tasks, 1, s)) => overlapped

\* both requests succeeded and a column that both touched has a gap or a duplicate
C7_Witness ==
    /\ AllAnswered
    /\ \E s \in Statuses :
        /\ ~Dense(tasks, 1, s)
        /\ \A p \in Procs : s \in {rq[p].sourceStatus, rq[p].destinationStatus}

\* the last step rolled a move back
RolledBack == ev.kind = "rolledback"

\* C8: when the request of a pending move fails and nothing else changed the
\* list meanwhile, the list is again the one from before the optimistic update
\* and a failure message was shown.
C8_RollbackRestoresSnapshot ==
    (RolledBack /\ ev.clean) => (ctasks = ev.before /\ toasts = ev.toasts + 1)

\* a move whose optimistic list differed from the snapshot was rolled back
\* with no other change of the list in between
C8_Witness ==
    /\ RolledBack /\ ev.clean
    /\ hist.failedOpt # {}
    /\ \A l \in hist.failedOpt : l # ctasks

\* C9 (stated as claimed): once the client has the server's success answer to
\* its move request, the move ends with the list replaced by the task list
\* the server holds, never by the snapshot or the optimistic list.
C9_SuccessEndsReconciled ==
    (ev.kind # "none" /\ ev.gotOk) => (ev.kind = "reconciled" /\ ctasks = TaskList(tasks, 1))

\* C10 (stated as claimed): when no request is outstanding the list shown is
\* the one from before the moves, one received from the server, or the
\* snapshot of a failed move that is not the optimistic list of a failed move.
C10_NoFailedOptimisticLeft ==
    (loaded /\ NonePending) =>
        \/ ctasks = hist.base
        \/ ctasks \in hist.confirmed
        \/ (ctasks \in hist.failedSnap /\ ctasks \notin hist.failedOpt)

\* C11 (stated as claimed): at most one move of the board is between its
\* optimistic update and its reconciliation or rollback; a drop made meanwhile
\* takes no snapshot and sends no request.
C11_AtMostOnePending ==
    Cardinality({h \in Slots : Pending(h)}) <= 1

\* C12 (stated as claimed): the reorder request of one drop reaches the route
\* at most once; a timeout is followed by the rollback, not by a second send.
C12_OneRequestPerDrop ==
    \A h \in Slots : hd[h].served <= 1

\* a request was just answered by the route behind its validation middleware
Routed == last.op = "route"

\* some field of the request is not of the form the route asks for
Malformed(raw) ==
    \/ raw.id.len # 24 \/ ~raw.id.hex
    \/ raw.taskId.len # 24 \/ ~raw.taskId.hex
    \/ raw.sourceStatus \notin Statuses
    \/ raw.destinationStatus \notin Statuses
    \/ raw.destinationIndex < 0
    \/ raw.destinationIndex % 2 # 0

\* C13: a reorder request with a malformed project id or task id, a source or
\* destination status outside todo, inprogress, done, or a negative or
\* non-integer destinationIndex is answered 400 VALIDATION_ERROR without the
\* handler running, and no task is modified.
C13_MalformedRejected ==
    (Routed /\ Malformed(last.raw)) =>
        /\ last.code = "VALIDATION_ERROR"
        /\ last.req = NoRequest
        /\ tasks = last.pre

\* a request that names an existing task of an existing project and its column,
\* and whose only fault is a fractional destinationIndex, was refused
C13_Witness ==
    /\ Routed
    /\ last.raw.destinationIndex = 1
    /\ IsMongoId(last.raw.id) /\ last.raw.id.n \in projects
    /\ IsMongoId(last.raw.taskId) /\ last.raw.taskId.n \in DOMAIN tasks
    /\ tasks[last.raw.taskId.n].projectId = last.raw.id.n
    /\ tasks[last.raw.taskId.n].status = last.raw.sourceStatus
    /\ last.raw.destinationStatus \in Statuses
    /\ last.code = "VALIDATION_ERROR"

C15_DestinationIsProjectColumn ==
    (/\ Routed
     /\ IsMongoId(last.raw.id) /\ last.raw.id.n \in projects
     /\ IsMongoId(last.raw.taskId) /\ last.raw.taskId.n \in DOMAIN last.pre
     /\ last.pre[last.raw.taskId.n].projectId = last.raw.id.n
     /\ last.pre[last.raw.taskId.n].status = last.raw.sourceStatus
     /\ last.raw.destinationIndex >= 0 /\ last.raw.destinationIndex % 2 = 0)
    => IF last.raw.destinationStatus \in Columns[last.raw.id.n]
       THEN last.code # "VALIDATION_ERROR"
       ELSE last.code # "OK" /\ tasks = last.pre

MovedBack == last.op = "back" /\ last.code = "OK"

\* C17: from dense columns, moving a task from column A, where it is at index
\* i, to column B at index j and then at once back from B to A at index i gives
\* every task that was in A or in B the order it had, with the task in A again.
C17_RoundTrip ==
    (MovedBack /\ \A s \in Statuses : Dense(last.pre, last.out.projectId, s)) =>
        /\ tasks[last.out.taskId].status = last.out.sourceStatus
        /\ \A t \in DOMAIN last.pre :
              (/\ last.pre[t].projectId = last.out.projectId
               /\ last.pre[t].status \in {last.out.sourceStatus, last.out.destinationStatus})
              => tasks[t].order = last.pre[t].order

\* a round trip between two columns in which a task of the source column and a
\* task of the destination column were shifted by the first move
C17_Witness ==
    /\ MovedBack
    /\ \A s \in Statuses : Dense(last.pre, last.out.projectId, s)
    /\ last.out.sourceStatus # last.out.destinationStatus
    /\ \E t \in DOMAIN last.pre \ {last.out.taskId} :
          /\ last.pre[t].status = last.out.sourceStatus
          /\ last.pre[t].order > last.pre[last.out.taskId].order
    /\ \E t \in DOMAIN last.pre :
          /\ last.pre[t].status = last.out.destinationStatus
          /\ last.pre[t].order >= last.out.destinationIndex

\* C18 (stated as claimed): a request whose destination is the column the task
\* is in and the index it is at is recognised before any write: no document
\* is updated and the collection is as before.
C18_NoOpWritesNothing ==
    (/\ MovedFromSource /\ ~CrossColumn
     /\ last.req.destinationIndex = IndexOf(last.pre, last.req.taskId))
    => (tasks = last.pre /\ Written(last.pre, last.req) = {})

\* C19 (stated as claimed): after a successful reorder any two tasks other
\* than the moved one that stay together in a column keep their relative
\* order, and the order of a task other than the moved one changes by one at
\* most.
C19_OthersShiftByOne ==
    MovedFromSource =>
        LET m == last.req.taskId
            others == DOMAIN last.pre \ {m}
        IN  /\ \A a, b \in others :
                  (/\ last.pre[a].projectId = last.pre[b].projectId
                   /\ last.pre[a].status = last.pre[b].status
                   /\ tasks[a].status = tasks[b].status
                   /\ last.pre[a].order < last.pre[b].order)
                  => tasks[a].order < tasks[b].order
            /\ \A t \in others :
                  tasks[t].order - last.pre[t].order \in {-1, 0, 1}

\* C20: in every state reached by creations, deletions, status changes by PUT
\* without an order, and reorders that name the task's current column, one at
\* a time, no two tasks of one project and status have the same order.
C20_UniqueOrders ==
    \A a, b \in DOMAIN tasks :
        (a # b /\ tasks[a].projectId = tasks[b].projectId /\ tasks[a].status = tasks[b].status)
        => tasks[a].order # tasks[b].order

\* a PUT moved a task into a column that holds another task and whose orders
\* have a gap
C20_Witness ==
    /\ last.op = "put" /\ last.code = "OK" /\ tasks # last.pre
    /\ \E t \in DOMAIN tasks :
          /\ tasks[t] # last.pre[t]
          /\ Cardinality(ColumnIds(tasks, tasks[t].projectId, tasks[t].status)) >= 2
          /\ ~Dense(tasks, tasks[t].projectId, tasks[t].status)

\* a task was just created
Created == last.op = "create" /\ last.code = "OK"

\* C21 (stated as claimed): a created task gets as its order the number of
\* tasks its column held, also after tasks of the column were deleted or moved.
C21_CreatedOrderIsCount ==
    Created =>
        \A t \in DOMAIN tasks \ DOMAIN last.pre :
            tasks[t].order =
                Cardinality(ColumnIds(last.pre, tasks[t].projectId, tasks[t].status))

\* a PUT was just answered with success
Updated == last.op = "put" /\ last.code = "OK"

\* C22: a PUT that changes the status of a task puts it after the last task of
\* the new column (largest order plus one, 0 in an empty column) whatever order
\* the body carried; a PUT that does not change the status sets the order the
\* body carried, or leaves the order as it was.
C22_PutAppends ==
    Updated =>
        LET t == last.id
            col == ColumnIds(last.pre, last.pre[t].projectId, last.status)
        IN  IF last.status \in Statuses /\ last.status # last.pre[t].status
            THEN /\ tasks[t].status = last.status
                 /\ IF col = {}
                    THEN tasks[t].order = 0
                    ELSE /\ tasks[t].order - 1 \in OrdersOf(last.pre, col)
                         /\ \A u \in col : last.pre[u].order < tasks[t].order
            ELSE /\ tasks[t].status = last.pre[t].status
                 /\ tasks[t].order = IF last.order \in 0..MaxOrder
                                     THEN last.order ELSE last.pre[t].order

\* a PUT that carried an order moved a task into a column that held a task and
\* had a gap, and the task did not get the order the body carried
C22_Witness ==
    /\ Updated
    /\ last.status \in Statuses /\ last.status # last.pre[last.id].status
    /\ last.order \in 0..MaxOrder /\ tasks[last.id].order # last.order
    /\ ColumnIds(last.pre, 1, last.status) # {}
    /\ ~Dense(last.pre, 1, last.status)

\* C23 (stated as claimed): once a project deletion has answered with success
\* no task carries that project's id, also when a task creation for the
\* project ran at the same time.
C23_CascadeLeavesNoTask ==
    \A p \in Procs :
        (pc[p] = "done" /\ loc[p].code = "DELETED")
        => \A t \in DOMAIN tasks : tasks[t].projectId # rq[p].projectId

\* C24: when every awaited request gets its response or runs into the timeout,
\* a move that was sent is in the end reconciled with the server's list or
\* rolled back to its snapshot, and its handler is gone.
C24_MoveResolves ==
    \A h \in Slots :
        Pending(h) ~> (~Pending(h) /\ ev.kind \in {"reconciled", "rolledback"})

\* after a move that failed and a move that was reconciled no request is
\* outstanding
C24_Witness ==
    /\ NonePending
    /\ ev.kind = "reconciled"
    /\ hist.failedSnap # {}
    /\ drags = MaxDrags

\* handler h has just made its optimistic update: its request is out, not yet
\* served, and the list is the one it set
JustDropped(h) ==
    /\ hd[h].phase = "sent" /\ ~hd[h].retried /\ hd[h].served = 0
    /\ ctasks = hd[h].finalTasks

\* C25 (stated as claimed): right after a drop, before any response, the moved
\* task is shown in the destination column at position destinationIndex of the
\* column's list sorted by order.
C25_ShownAtDestinationIndex ==
    \A h \in Slots :
        JustDropped(h) =>
            LET i == PositionOf(ctasks, hd[h].req.taskId)
            IN  /\ ctasks[i].status = hd[h].req.destinationStatus
                /\ DisplayIndex(ctasks, i) = hd[h].req.destinationIndex

\* C26 (stated as claimed): once the page is unmounted a response that arrives
\* changes no local state, starts no further request and shows no message.
C26_ResponseIgnoredAfterUnmount ==
    teardown.done =>
        /\ ctasks = teardown.tasks
        /\ toasts = teardown.toasts
        /\ {h \in Slots : hd[h].phase = "getting"} \subseteq teardown.getting

\* the last step was a drop without a destination, onto the column and index
\* the card came from, or of a task that was not in the list
EarlyReturnDrop ==
    /\ ev.kind = "ignored"
    /\ \/ ~ev.hasDestination
       \/ (ev.droppableId = ev.source.droppableId /\ ev.index = ev.source.index)
       \/ \A i \in 1..Len(ev.before) : ev.before[i].id # ev.source.id

\* C27: such a drop sends no reorder request and leaves the task list as it
\* was; it only ends the drag.
C27_IgnoredDropChangesNothing ==
    [][EarlyReturnDrop' =>
          /\ ctasks' = ctasks
          /\ hd' = hd
          /\ tasks' = tasks
          /\ toasts' = toasts
          /\ drag' = NoDrag]_vars

\* a card was dropped on another position after its task had left the list
C27_Witness ==
    /\ ev.kind = "ignored"
    /\ ev.hasDestination
    /\ ~(ev.droppableId = ev.source.droppableId /\ ev.index = ev.source.index)
    /\ \A i \in 1..Len(ev.before) : ev.before[i].id # ev.source.id
    /\ ev.before # <<>>


\* C28 (stated as claimed): after a successful cross-column reorder whose
\* destinationIndex d is at most the number of tasks the destination column
\* held, the moved task is shown at index d of the destination column sorted by
\* order, also when deletions left gaps in the destination's orders.
C28_MovedTaskIsDth ==
    (MovedFromSource /\ CrossColumn
        /\ last.req.destinationIndex <= Cardinality(DestBefore)) =>
        IndexOf(tasks, last.req.taskId) = last.req.destinationIndex


\* the tasks a served request may write: the task it names and the tasks of
\* its project in its source or destination column
InFrame(t) ==
    \/ t = last.req.taskId
    \/ /\ last.pre[t].projectId = last.req.projectId
       /\ last.pre[t].status \in {last.req.sourceStatus, last.req.destinationStatus}

\* C29: whatever the reorder route answers, every task other than the one the
\* request names that belongs to another project, or to the request's project
\* in a column that is neither its sourceStatus nor its destinationStatus, is
\* still there with the status and order it had.
C29_ReorderFrame ==
    Routed =>
        \A t \in DOMAIN last.pre :
            ~InFrame(t) => (t \in DOMAIN tasks /\ tasks[t] = last.pre[t])

\* a successful cross-column move into a column name under which another
\* project holds a task at or above the destination index
C29_Witness ==
    /\ Routed /\ last.code = "OK" /\ CrossColumn
    /\ last.pre[last.req.taskId].status = last.req.sourceStatus
    /\ \E t \in DOMAIN last.pre :
        /\ last.pre[t].projectId # last.req.projectId
        /\ last.pre[t].status = last.req.destinationStatus
        /\ last.pre[t].order >= last.req.destinationIndex
        /\ tasks[t] = last.pre[t]


====
